---- MODULE Spec2Model ----
(***************************************************************************)
(* Model of the JSON:API query engine of nestjs-rest:                      *)
(*   - parser / serializer of packages/std-json-api/parser.ts              *)
(*   - the offset pagination link calculators (all variants in the tree)   *)
(*                                                                         *)
(* Strings are sequences of tokens.  A token is one significant character  *)
(* (",", "-", "+", " ", ".", a decimal digit) or an opaque run of other    *)
(* characters ("created", "abc") that no operation of the code splits.     *)
(* JavaScript values are tagged records, objects keep insertion order.     *)
(***************************************************************************)
EXTENDS Integers, Sequences, FiniteSets, TLC

VARIABLES raw, pc, query, qstr, query2,
          pgVariant, pgLimit, pgOffset, pgTotal, pgLinks, pgRest, pgHrefs,
          bVersion, bKind, bRef, heap, bBuilt, bCall,
          hPc, hParsed, hQuery, store, hResults, hTotal, hFetchedFrom, hResponse

vars == <<raw, pc, query, qstr, query2,
          pgVariant, pgLimit, pgOffset, pgTotal, pgLinks, pgRest, pgHrefs,
          bVersion, bKind, bRef, heap, bBuilt, bCall,
          hPc, hParsed, hQuery, store, hResults, hTotal, hFetchedFrom, hResponse>>

parserVars == <<raw, pc, query, qstr, query2>>

pagingVars == <<pgVariant, pgLimit, pgOffset, pgTotal, pgLinks, pgRest, pgHrefs>>

builderVars == <<bVersion, bKind, bRef, heap, bBuilt, bCall>>

\* the state of the components that take no part in parsing or paging
handlerVars == <<hPc, hParsed, hQuery, store, hResults, hTotal, hFetchedFrom, hResponse>>

otherVars == <<builderVars, handlerVars>>

(***************************************************************************)
(* Bounds                                                                  *)
(***************************************************************************)
MaxParams == 4

MaxLimit == 3

MaxOffset == 7

MaxTotal == 7

(***************************************************************************)
(* Strings                                                                 *)
(***************************************************************************)
Str(w) == <<w>>

Digits == {"0", "1", "2", "3", "4", "5", "6", "7", "8", "9"}

DigitVal == ("0" :> 0) @@ ("1" :> 1) @@ ("2" :> 2) @@ ("3" :> 3) @@ ("4" :> 4) @@
            ("5" :> 5) @@ ("6" :> 6) @@ ("7" :> 7) @@ ("8" :> 8) @@ ("9" :> 9)

DigitTok == <<"0", "1", "2", "3", "4", "5", "6", "7", "8", "9">>

IsSpace(c) == c = " "

RECURSIVE TrimStart(_)
TrimStart(s) == IF s # <<>> /\ IsSpace(Head(s)) THEN TrimStart(Tail(s)) ELSE s

RECURSIVE TrimEnd(_)
TrimEnd(s) ==
    IF s # <<>> /\ IsSpace(s[Len(s)]) THEN TrimEnd(SubSeq(s, 1, Len(s) - 1)) ELSE s

\* String.prototype.trim
Trim(s) == TrimEnd(TrimStart(s))

\* String.prototype.split(","): always at least one piece
RECURSIVE SplitAcc(_, _, _)
SplitAcc(s, cur, acc) ==
    IF s = <<>> THEN Append(acc, cur)
    ELSE IF Head(s) = "," THEN SplitAcc(Tail(s), <<>>, Append(acc, cur))
    ELSE SplitAcc(Tail(s), Append(cur, Head(s)), acc)

SplitComma(s) == SplitAcc(s, <<>>, <<>>)

\* Array.prototype.join(",")
RECURSIVE JoinComma(_)
JoinComma(xs) ==
    IF xs = <<>> THEN <<>>
    ELSE IF Len(xs) = 1 THEN xs[1]
    ELSE xs[1] \o <<",">> \o JoinComma(Tail(xs))

\* Array.prototype.filter(Boolean) on strings: drops the empty ones
RECURSIVE FilterBoolean(_)
FilterBoolean(xs) ==
    IF xs = <<>> THEN <<>>
    ELSE IF Head(xs) # <<>> THEN <<Head(xs)>> \o FilterBoolean(Tail(xs))
    ELSE FilterBoolean(Tail(xs))

\* s.split(",").map(trim).filter(Boolean)
SplitTrimFilter(s) ==
    LET pieces == SplitComma(s)
        trimmed == [i \in 1..Len(pieces) |-> Trim(pieces[i])]
    IN FilterBoolean(trimmed)

(***************************************************************************)
(* Numbers.  A number is NaN or a signed decimal magnitude kept as its     *)
(* digit sequence without leading zeros, so that values beyond 2^53 - 1    *)
(* are representable.                                                      *)
(***************************************************************************)
NaN == [nan |-> TRUE, neg |-> FALSE, mag |-> <<>>]

RECURSIVE StripZeros(_)
StripZeros(ds) ==
    IF Len(ds) > 1 /\ Head(ds) = 0 THEN StripZeros(Tail(ds)) ELSE ds

\* -0 and 0 are the same number under ===
Num(neg, ds) ==
    LET m == StripZeros(ds)
    IN [nan |-> FALSE, neg |-> (neg /\ m # <<0>>), mag |-> m]

RECURSIVE LeadingDigits(_)
LeadingDigits(s) ==
    IF s # <<>> /\ Head(s) \in Digits
    THEN <<DigitVal[Head(s)]>> \o LeadingDigits(Tail(s))
    ELSE <<>>

\* parseInt(s, 10)
ParseInt(s) ==
    LET t == TrimStart(s)
        signed == t # <<>> /\ Head(t) \in {"-", "+"}
        body == IF signed THEN Tail(t) ELSE t
        ds == LeadingDigits(body)
    IN IF ds = <<>> THEN NaN ELSE Num(signed /\ Head(t) = "-", ds)

\* Number.MAX_SAFE_INTEGER = 2^53 - 1 = 9007199254740991
MaxSafeDigits == <<9, 0, 0, 7, 1, 9, 9, 2, 5, 4, 7, 4, 0, 9, 9, 1>>

RECURSIVE LexLeq(_, _)
LexLeq(a, b) ==
    IF a = <<>> THEN TRUE
    ELSE IF Head(a) # Head(b) THEN Head(a) < Head(b)
    ELSE LexLeq(Tail(a), Tail(b))

MagLeq(a, b) == Len(a) < Len(b) \/ (Len(a) = Len(b) /\ LexLeq(a, b))

\* !isNaN(value) && Number.isSafeInteger(value)
isSafeInteger(n) == ~n.nan /\ MagLeq(n.mag, MaxSafeDigits)

IsZero(n) == ~n.nan /\ n.mag = <<0>>

\* n >= 0
NonNegative(n) == ~n.nan /\ ~n.neg

\* the comparison written >= 0 where > 0 is meant
PositiveOrZero(n) == ~n.nan /\ ~n.neg

\* n > 0
Positive(n) == ~n.nan /\ ~n.neg /\ ~IsZero(n)

\* String(n) for an integer
NumToString(n) ==
    IF n.nan THEN <<"NaN">>
    ELSE (IF n.neg THEN <<"-">> ELSE <<>>) \o [i \in 1..Len(n.mag) |-> DigitTok[n.mag[i] + 1]]

(***************************************************************************)
(* JavaScript values                                                       *)
(***************************************************************************)
Undefined == [t |-> "undef", v |-> <<>>]

JStr(s) == [t |-> "str", v |-> s]

JNum(n) == [t |-> "num", v |-> n]

\* an object: the sequence of its <<key, value>> entries in enumeration order
JObj(kv) == [t |-> "obj", v |-> kv]

JArr(xs) == [t |-> "arr", v |-> xs]

EmptyObj == JObj(<<>>)

\* typeof x === "string"
IsString(x) == x.t = "str"

\* typeof x === "object" (arrays are objects)
IsObject(x) == x.t \in {"obj", "arr"}

\* the truthiness test `x &&` : undefined and "" are falsy, objects are truthy
Truthy(x) ==
    CASE x.t = "undef" -> FALSE
      [] x.t = "null" -> FALSE
      [] x.t = "str" -> x.v # <<>>
      [] x.t = "num" -> ~x.v.nan /\ ~IsZero(x.v)
      [] OTHER -> TRUE

\* a canonical array index: "0", or digits without a leading zero
IsIntKey(k) ==
    /\ k # <<>>
    /\ \A i \in 1..Len(k) : k[i] \in Digits
    /\ (Len(k) > 1 => k[1] # "0")

KeyDigits(k) == [i \in 1..Len(k) |-> DigitVal[k[i]]]

IndexKey(i) == <<DigitTok[i + 1]>>

IndexOfKey(k) == DigitVal[k[1]]

\* Object.entries(x)
Entries(x) ==
    CASE x.t = "obj" -> x.v
      [] x.t = "arr" -> [i \in 1..Len(x.v) |-> <<IndexKey(i - 1), x.v[i]>>]
      [] OTHER -> <<>>

\* Object.keys(x)
Keys(x) == [i \in 1..Len(Entries(x)) |-> Entries(x)[i][1]]

\* key in x, for an object or array x
HasKey(x, k) == \E i \in 1..Len(Entries(x)) : Entries(x)[i][1] = k

\* x[k], undefined when the property is missing
Get(x, k) ==
    IF HasKey(x, k)
    THEN LET i == CHOOSE j \in 1..Len(Entries(x)) : Entries(x)[j][1] = k
         IN Entries(x)[i][2]
    ELSE Undefined

InsertAt(xs, i, e) == SubSeq(xs, 1, i - 1) \o <<e>> \o SubSeq(xs, i, Len(xs))

\* o[k] = v on a plain object: an existing key keeps its place, a new integer
\* key goes among the integer keys in ascending order, any other key goes last
ObjSet(o, k, v) ==
    LET kv == o.v IN
    IF \E i \in 1..Len(kv) : kv[i][1] = k
    THEN JObj([i \in 1..Len(kv) |-> IF kv[i][1] = k THEN <<k, v>> ELSE kv[i]])
    ELSE IF IsIntKey(k)
    THEN LET smaller == {i \in 1..Len(kv) :
                            /\ IsIntKey(kv[i][1])
                            /\ MagLeq(KeyDigits(kv[i][1]), KeyDigits(k))}
         IN JObj(InsertAt(kv, Cardinality(smaller) + 1, <<k, v>>))
    ELSE JObj(Append(kv, <<k, v>>))

(***************************************************************************)
(* The qs library at the level of decoded parameters.  A query string is   *)
(* the sequence of its parameters; `a[b][c]=v` is [path |-> <<a,b,c>>,     *)
(* val |-> v].  Percent-encoding is applied by stringify and undone by     *)
(* parse and is not represented.                                           *)
(***************************************************************************)
Param(path, val) == [path |-> path, val |-> val]

\* one parameter merged into the value under construction: a repeated
\* path combines into an array, a bracketed index builds an array
RECURSIVE QsMerge(_, _, _, _)
QsMerge(cur, path, val, top) ==
    IF path = <<>>
    THEN CASE cur.t = "undef" -> JStr(val)
           [] cur.t = "str" -> JArr(<<cur, JStr(val)>>)
           [] cur.t = "arr" -> JArr(Append(cur.v, JStr(val)))
           [] OTHER -> cur
    ELSE LET k == Head(path)
             rest == Tail(path)
         IN  IF ~top /\ IsIntKey(k) /\ Len(k) = 1 /\ cur.t \in {"undef", "arr"}
             THEN LET xs == IF cur.t = "arr" THEN cur.v ELSE <<>>
                      i == IndexOfKey(k) + 1
                  IN IF i <= Len(xs)
                     THEN JArr([xs EXCEPT ![i] = QsMerge(xs[i], rest, val, FALSE)])
                     ELSE JArr(Append(xs, QsMerge(Undefined, rest, val, FALSE)))
             ELSE CASE cur.t = "undef" ->
                         JObj(<< <<k, QsMerge(Undefined, rest, val, FALSE)>> >>)
                    [] cur.t = "obj" ->
                         ObjSet(cur, k, QsMerge(Get(cur, k), rest, val, FALSE))
                    [] OTHER -> cur

\* qs.parse(searchString, {depth: 10, parameterLimit: 1000, allowDots: false})
RECURSIVE QsParseFrom(_, _)
QsParseFrom(params, acc) ==
    IF params = <<>> THEN acc
    ELSE QsParseFrom(Tail(params),
                     QsMerge(acc, Head(params).path, Head(params).val, TRUE))

QsParse(params) == QsParseFrom(params, EmptyObj)

\* the parameters one value contributes: an undefined value and an empty
\* object or array contribute none, an array is written with indices
RECURSIVE QsFlatten(_, _)
RECURSIVE QsFlattenEntries(_, _)
QsFlatten(path, x) ==
    CASE x.t = "str" -> <<Param(path, x.v)>>
      [] x.t = "num" -> <<Param(path, NumToString(x.v))>>
      [] x.t = "undef" -> <<>>
      [] OTHER -> QsFlattenEntries(path, Entries(x))

QsFlattenEntries(path, kv) ==
    IF kv = <<>> THEN <<>>
    ELSE QsFlatten(Append(path, Head(kv)[1]), Head(kv)[2])
         \o QsFlattenEntries(path, Tail(kv))

\* qs.stringify(obj, {allowDots: false})
QsStringify(obj) == QsFlattenEntries(<<>>, Entries(obj))

(***************************************************************************)
(* parser.ts: parser                                                       *)
(***************************************************************************)
\* the outcome of a call that raised instead of returning
Threw == [t |-> "threw", v |-> <<>>]

One == Num(FALSE, <<1>>)

MinusOne == Num(TRUE, <<1>>)

Ten == Num(FALSE, <<1, 0>>)

RECURSIVE SortFrom(_, _)
SortFrom(fields, sorting) ==
    IF fields = <<>> THEN sorting
    ELSE LET field == Head(fields)
         IN IF Head(field) = "-"
            THEN SortFrom(Tail(fields), ObjSet(sorting, Tail(field), JNum(MinusOne)))
            ELSE SortFrom(Tail(fields), ObjSet(sorting, field, JNum(One)))

\* sortString.split raises on a value that is not a string
parseSortParameter(sortString) ==
    IF ~IsString(sortString) THEN Threw
    ELSE SortFrom(SplitTrimFilter(sortString.v), EmptyObj)

CursorPage(cursor, field, limit) ==
    JObj(<< <<Str("cursor"), cursor>>, <<Str("field"), field>>,
            <<Str("limit"), JNum(limit)>> >>)

OffsetPage(offset, limit) ==
    JObj(<< <<Str("offset"), JNum(offset)>>, <<Str("limit"), JNum(limit)>> >>)

\* the `in` operator raises on a value that is not an object
parsePageParameter(pageObj) ==
    IF pageObj.t \notin {"obj", "arr"} THEN Threw
    ELSE IF HasKey(pageObj, Str("cursor")) /\ IsString(Get(pageObj, Str("cursor")))
    THEN LET cursor == Get(pageObj, Str("cursor"))
             field == IF IsString(Get(pageObj, Str("field")))
                      THEN Get(pageObj, Str("field")) ELSE JStr(Str("id"))
             limit == IF IsString(Get(pageObj, Str("limit")))
                      THEN ParseInt(Get(pageObj, Str("limit")).v) ELSE Ten
         IN IF isSafeInteger(limit) /\ Positive(limit)
            THEN CursorPage(cursor, field, limit)
            ELSE Undefined
    ELSE IF HasKey(pageObj, Str("offset")) \/ HasKey(pageObj, Str("limit"))
    THEN LET offset == IF IsString(Get(pageObj, Str("offset")))
                       THEN ParseInt(Get(pageObj, Str("offset")).v) ELSE Num(FALSE, <<0>>)
             limit == IF IsString(Get(pageObj, Str("limit")))
                      THEN ParseInt(Get(pageObj, Str("limit")).v) ELSE Ten
         IN IF /\ isSafeInteger(offset) /\ isSafeInteger(limit)
               /\ NonNegative(offset) /\ Positive(limit)
            THEN OffsetPage(offset, limit)
            ELSE Undefined
    ELSE Undefined

parseFilterParameter(filterObj) == filterObj

RECURSIVE MarkIncluded(_, _)
MarkIncluded(fieldNames, map) ==
    IF fieldNames = <<>> THEN map
    ELSE MarkIncluded(Tail(fieldNames), ObjSet(map, Head(fieldNames), JNum(One)))

RECURSIVE FieldsFrom(_, _)
FieldsFrom(entries, fields) ==
    IF entries = <<>> THEN fields
    ELSE LET resourceType == Head(entries)[1]
             fieldList == Head(entries)[2]
         IN IF IsString(fieldList)
            THEN FieldsFrom(Tail(entries),
                            ObjSet(fields, resourceType,
                                   MarkIncluded(SplitTrimFilter(fieldList.v), EmptyObj)))
            ELSE FieldsFrom(Tail(entries), fields)

parseFieldsParameter(fieldsObj) == FieldsFrom(Entries(fieldsObj), EmptyObj)

RECURSIVE DropRepeated(_, _)
DropRepeated(xs, seen) ==
    IF xs = <<>> THEN seen
    ELSE IF \E i \in 1..Len(seen) : seen[i] = Head(xs)
    THEN DropRepeated(Tail(xs), seen)
    ELSE DropRepeated(Tail(xs), Append(seen, Head(xs)))

\* the include list with repeated paths removed
parseIncludeUnique(includeString) ==
    LET paths == DropRepeated(SplitTrimFilter(includeString.v), <<>>)
    IN JArr([i \in 1..Len(paths) |-> JStr(paths[i])])

\* the include list without .filter(Boolean)
parseIncludeUnfiltered(includeString) ==
    LET pieces == SplitComma(includeString.v)
    IN JArr([i \in 1..Len(pieces) |-> JStr(Trim(pieces[i]))])

parseIncludeParameter(includeString) ==
    LET paths == SplitTrimFilter(includeString.v)
    IN JArr([i \in 1..Len(paths) |-> JStr(paths[i])])

ReservedKeys == {Str("sort"), Str("page"), Str("filter"), Str("fields"), Str("include")}

\* the copy of the custom parameters that keeps string values only
RECURSIVE CopyCustomStrings(_, _)
CopyCustomStrings(entries, result) ==
    IF entries = <<>> THEN result
    ELSE IF Head(entries)[1] \notin ReservedKeys /\ IsString(Head(entries)[2])
    THEN CopyCustomStrings(Tail(entries), ObjSet(result, Head(entries)[1], Head(entries)[2]))
    ELSE CopyCustomStrings(Tail(entries), result)

RECURSIVE CopyCustom(_, _)
CopyCustom(entries, result) ==
    IF entries = <<>> THEN result
    ELSE IF Head(entries)[1] \notin ReservedKeys
    THEN CopyCustom(Tail(entries), ObjSet(result, Head(entries)[1], Head(entries)[2]))
    ELSE CopyCustom(Tail(entries), result)

\* the guard without its typeof test
PageGuardNoTypeof(pPage) == Truthy(pPage)

\* parsed.page && typeof parsed.page === "object"
PageGuard(pPage) == Truthy(pPage) /\ IsObject(pPage)

\* a rejected page block discarding what was parsed before it
SetPageOrReset(result, page) ==
    IF page = Undefined THEN EmptyObj ELSE ObjSet(result, Str("page"), page)

\* result.page = parsePageParameter(parsed.page)
SetPage(result, page) == ObjSet(result, Str("page"), page)

\* the sort key left out when no sort string was given
SortOnlyIfGiven(pSort) ==
    IF IsString(pSort) THEN parseSortParameter(pSort) ELSE Undefined

\* typeof parsed.sort === "string" ? parseSortParameter(parsed.sort) : {}
SortOrEmpty(pSort) ==
    IF IsString(pSort) THEN parseSortParameter(pSort) ELSE EmptyObj

\* the fields key left out when no fields block was given
FieldsOnlyIfGiven(pFields) ==
    IF Truthy(pFields) /\ IsObject(pFields)
    THEN parseFieldsParameter(pFields) ELSE Undefined

\* parsed.fields && typeof parsed.fields === "object"
\*     ? parseFieldsParameter(parsed.fields) : {}
FieldsOrEmpty(pFields) ==
    IF Truthy(pFields) /\ IsObject(pFields)
    THEN parseFieldsParameter(pFields) ELSE EmptyObj

parser(searchString) ==
    LET parsed == QsParse(searchString)
        pSort == Get(parsed, Str("sort"))
        pPage == Get(parsed, Str("page"))
        pFilter == Get(parsed, Str("filter"))
        pFields == Get(parsed, Str("fields"))
        pInclude == Get(parsed, Str("include"))
        sort == SortOrEmpty(pSort)
        hasPage == PageGuard(pPage)
        page == IF hasPage THEN parsePageParameter(pPage) ELSE Undefined
        hasFilter == Truthy(pFilter) /\ IsObject(pFilter)
        fields == FieldsOrEmpty(pFields)
        hasInclude == IsString(pInclude)
        r1 == ObjSet(EmptyObj, Str("sort"), sort)
        r2 == IF hasPage /\ page # Threw THEN SetPage(r1, page) ELSE r1
        r3 == IF hasFilter
              THEN ObjSet(r2, Str("filter"), parseFilterParameter(pFilter)) ELSE r2
        r4 == ObjSet(r3, Str("fields"), fields)
        r5 == IF hasInclude
              THEN ObjSet(r4, Str("include"), parseIncludeParameter(pInclude)) ELSE r4
    IN IF sort = Threw \/ page = Threw THEN Threw
       ELSE CopyCustom(Entries(parsed), r5)

(***************************************************************************)
(* parser.ts: serializer                                                   *)
(***************************************************************************)
serializeSortParameter(sort) ==
    LET es == Entries(sort)
    IN JoinComma([i \in 1..Len(es) |->
                    IF es[i][2] = JNum(MinusOne) THEN <<"-">> \o es[i][1] ELSE es[i][1]])

serializePageParameter(page) ==
    IF HasKey(page, Str("cursor"))
    THEN LET result == JObj(<< <<Str("cursor"), Get(page, Str("cursor"))>>,
                              <<Str("limit"), Get(page, Str("limit"))>> >>)
             field == Get(page, Str("field"))
         IN IF Truthy(field) /\ field # JStr(Str("id"))
            THEN ObjSet(result, Str("field"), field)
            ELSE result
    ELSE JObj(<< <<Str("offset"), Get(page, Str("offset"))>>,
                 <<Str("limit"), Get(page, Str("limit"))>> >>)

RECURSIVE IncludedNames(_)
IncludedNames(entries) ==
    IF entries = <<>> THEN <<>>
    ELSE IF Head(entries)[2] = JNum(One)
    THEN <<Head(entries)[1]>> \o IncludedNames(Tail(entries))
    ELSE IncludedNames(Tail(entries))

RECURSIVE SerializeFieldsFrom(_, _)
SerializeFieldsFrom(entries, result) ==
    IF entries = <<>> THEN result
    ELSE LET includedFields == IncludedNames(Entries(Head(entries)[2]))
         IN IF Len(includedFields) > 0
            THEN SerializeFieldsFrom(Tail(entries),
                     ObjSet(result, Head(entries)[1], JStr(JoinComma(includedFields))))
            ELSE SerializeFieldsFrom(Tail(entries), result)

serializeFieldsParameter(fields) == SerializeFieldsFrom(Entries(fields), EmptyObj)

serializer(q) ==
    LET sort == Get(q, Str("sort"))
        page == Get(q, Str("page"))
        filter == Get(q, Str("filter"))
        fields == Get(q, Str("fields"))
        include == Get(q, Str("include"))
        o1 == IF Truthy(sort) /\ Len(Keys(sort)) > 0
              THEN ObjSet(EmptyObj, Str("sort"), JStr(serializeSortParameter(sort)))
              ELSE EmptyObj
        o2 == IF Truthy(page)
              THEN ObjSet(o1, Str("page"), serializePageParameter(page)) ELSE o1
        o3 == IF Truthy(filter) /\ Len(Keys(filter)) > 0
              THEN ObjSet(o2, Str("filter"), filter) ELSE o2
        o4 == IF Truthy(fields) /\ Len(Keys(fields)) > 0
              THEN ObjSet(o3, Str("fields"), serializeFieldsParameter(fields)) ELSE o3
        o5 == IF Truthy(include) /\ Len(include.v) > 0
              THEN ObjSet(o4, Str("include"),
                          JStr(JoinComma([i \in 1..Len(include.v) |-> include.v[i].v])))
              ELSE o4
    IN QsStringify(CopyCustom(Entries(q), o5))

(***************************************************************************)
(* The request decorators and parsers that precede parser.ts in the tree:  *)
(* queryStringParser (query-string-parser), Search (search.ts, two         *)
(* versions) and the helpers of json-api-query.ts                          *)
(***************************************************************************)
\* String(x)
RECURSIVE StringOf(_)
StringOf(x) ==
    CASE x.t = "str" -> x.v
      [] x.t = "num" -> NumToString(x.v)
      [] x.t = "arr" ->
            JoinComma([i \in 1..Len(x.v) |->
                          IF x.v[i].t = "undef" THEN <<>> ELSE StringOf(x.v[i])])
      [] x.t = "undef" -> <<"undefined">>
      [] OTHER -> <<"[object Object]">>

\* qs.parse of a text without "=", "&" or "[": one key with an empty value
QsParseText(s) == IF s = <<>> THEN EmptyObj ELSE JObj(<< <<s, JStr(<<>>)>> >>)

Zero == Num(FALSE, <<0>>)

Twenty == Num(FALSE, <<2, 0>>)

\* return {offset: 0, limit: 20}
DefaultPage == OffsetPage(Zero, Twenty)

\* typeof page === "object" && page !== null && "offset" in page && "limit" in page
HasOffsetAndLimit(page) ==
    IsObject(page) /\ HasKey(page, Str("offset")) /\ HasKey(page, Str("limit"))

\* search.ts parsed2pagination and LimitOffsetPaginationStrategy.parse: a
\* member that is not a number raises
StrategyParse(page) ==
    IF HasOffsetAndLimit(page)
    THEN LET offset == ParseInt(StringOf(Get(page, Str("offset"))))
             limit == ParseInt(StringOf(Get(page, Str("limit"))))
         IN IF offset.nan \/ limit.nan THEN Threw ELSE OffsetPage(offset, limit)
    ELSE DefaultPage

\* query-string-parser parsed2pagination: a member that is not a number
\* gives the defaults
parsed2pagination(page) ==
    LET obj == IF IsString(page) THEN QsParseText(page.v) ELSE page
    IN IF HasOffsetAndLimit(obj)
       THEN LET offset == ParseInt(StringOf(Get(obj, Str("offset"))))
                limit == ParseInt(StringOf(Get(obj, Str("limit"))))
            IN IF offset.nan \/ limit.nan THEN DefaultPage ELSE OffsetPage(offset, limit)
       ELSE DefaultPage

\* parsed2sorting with the mapping result: field -> -1 | 1
parsed2sorting(sortString) ==
    IF ~Truthy(sortString) \/ ~IsString(sortString) THEN EmptyObj
    ELSE SortFrom(SplitTrimFilter(sortString.v), EmptyObj)

SortItem(field, dir) == JObj(<< <<Str("field"), JStr(field)>>, <<Str("dir"), JStr(Str(dir))>> >>)

\* json-api-query.ts parsed2sorting: the list of {field, dir}
parsed2sortingList(sortString) ==
    IF ~Truthy(sortString) \/ ~IsString(sortString) THEN JArr(<<>>)
    ELSE LET ss == SplitTrimFilter(sortString.v)
         IN JArr([i \in 1..Len(ss) |->
                    IF Head(ss[i]) = "-" THEN SortItem(Tail(ss[i]), "desc")
                    ELSE SortItem(ss[i], "asc")])

parsed2filter(filter) ==
    IF IsString(filter) THEN QsParseText(filter.v)
    ELSE IF IsObject(filter) THEN filter
    ELSE EmptyObj

RECURSIVE MarkFields(_, _)
MarkFields(fieldNames, map) ==
    IF fieldNames = <<>> THEN map
    ELSE LET field == Head(fieldNames)
         IN IF Head(field) = "!"
            THEN MarkFields(Tail(fieldNames), ObjSet(map, Tail(field), JNum(Zero)))
            ELSE MarkFields(Tail(fieldNames), ObjSet(map, field, JNum(One)))

RECURSIVE Parsed2FieldsFrom(_, _)
Parsed2FieldsFrom(entries, ret) ==
    IF entries = <<>> THEN ret
    ELSE LET resource == Head(entries)[1]
             val == Head(entries)[2]
             cur == IF Truthy(Get(ret, resource)) THEN Get(ret, resource) ELSE EmptyObj
         IN IF ~IsString(val)
            THEN Parsed2FieldsFrom(Tail(entries), ObjSet(ret, resource, cur))
            ELSE Parsed2FieldsFrom(Tail(entries),
                     ObjSet(ret, resource, MarkFields(SplitTrimFilter(val.v), cur)))

parsed2fields(fields) ==
    IF ~Truthy(fields) THEN EmptyObj
    ELSE LET obj == IF IsString(fields) THEN QsParseText(fields.v) ELSE fields
         IN IF ~IsObject(obj) THEN EmptyObj
            ELSE Parsed2FieldsFrom(Entries(obj), EmptyObj)

parsed2include(include) ==
    IF ~IsString(include) THEN JArr(<<>>)
    ELSE LET paths == SplitTrimFilter(include.v)
         IN JArr([i \in 1..Len(paths) |-> JStr(paths[i])])

\* {...parsed, sort, filter, page, fields, include}
queryStringParser(searchString) ==
    LET parsed == QsParse(searchString)
        q1 == ObjSet(parsed, Str("sort"), parsed2sorting(Get(parsed, Str("sort"))))
        q2 == ObjSet(q1, Str("filter"), parsed2filter(Get(parsed, Str("filter"))))
        q3 == ObjSet(q2, Str("page"), parsed2pagination(Get(parsed, Str("page"))))
        q4 == ObjSet(q3, Str("fields"), parsed2fields(Get(parsed, Str("fields"))))
    IN ObjSet(q4, Str("include"), parsed2include(Get(parsed, Str("include"))))

\* search.ts: parsed.sort, parsed.filter and parsed.page are replaced in the
\* qs result, every other key stays as qs gave it
Search(searchString) ==
    LET parsed == QsParse(searchString)
        page == StrategyParse(Get(parsed, Str("page")))
        s1 == ObjSet(parsed, Str("sort"), parsed2sorting(Get(parsed, Str("sort"))))
        s2 == ObjSet(s1, Str("filter"), parsed2filter(Get(parsed, Str("filter"))))
    IN IF page = Threw THEN Threw ELSE ObjSet(s2, Str("page"), page)

\* search.ts with a pagination strategy: only {page, sort, filter}
SearchStrategy(searchString) ==
    LET parsed == QsParse(searchString)
        page == StrategyParse(Get(parsed, Str("page")))
    IN IF page = Threw THEN Threw
       ELSE JObj(<< <<Str("page"), page>>,
                    <<Str("sort"), parsed2sortingList(Get(parsed, Str("sort")))>>,
                    <<Str("filter"), parsed2filter(Get(parsed, Str("filter")))>> >>)

(***************************************************************************)
(* Structural equality of two values, ignoring the order of object keys    *)
(* and properties whose value is undefined                                 *)
(***************************************************************************)
DefinedKeys(x) == {Entries(x)[i][1] : i \in {j \in 1..Len(Entries(x)) : Entries(x)[j][2] # Undefined}}

RECURSIVE StructEq(_, _)
StructEq(a, b) ==
    IF a.t # b.t THEN FALSE
    ELSE CASE a.t = "obj" ->
                /\ DefinedKeys(a) = DefinedKeys(b)
                /\ \A k \in DefinedKeys(a) : StructEq(Get(a, k), Get(b, k))
           [] a.t = "arr" ->
                /\ Len(a.v) = Len(b.v)
                /\ \A i \in 1..Len(a.v) : StructEq(a.v[i], b.v[i])
           [] OTHER -> a = b

(***************************************************************************)
(* Pagination links.  A link is the page it targets, or absent.            *)
(***************************************************************************)
Absent == [present |-> FALSE, offset |-> 0, limit |-> 0]

Link(offset, limit) == [present |-> TRUE, offset |-> offset, limit |-> limit]

LinkSet(self, first, last, next, prev) ==
    [self |-> self, first |-> first, last |-> last, next |-> next, prev |-> prev]

NoLinks == LinkSet(Absent, Absent, Absent, Absent, Absent)

Max(a, b) == IF a >= b THEN a ELSE b

Min(a, b) == IF a <= b THEN a ELSE b

\* the last page computed from total instead of total - 1
LastOffsetOfTotal(limit, total) == (total \div limit) * limit

\* Math.floor((total - 1) / limit) * limit
LastOffset(limit, total) == ((total - 1) \div limit) * limit

\* json-query.ts: CollectionPaginationState
StateFirst(limit, offset, total) == Link(0, limit)

StateLast(limit, offset, total) ==
    LET lastOffset == LastOffset(limit, total)
    IN IF lastOffset >= 0 THEN Link(lastOffset, limit) ELSE Absent

StateNext(limit, offset, total) ==
    LET nextOffset == offset + limit
    IN IF total >= nextOffset THEN Link(nextOffset, limit) ELSE Absent

StatePrevious(limit, offset, total) ==
    LET prevOffset == offset - limit
    IN IF prevOffset >= 0 THEN Link(prevOffset, limit) ELSE Absent

StateSelf(limit, offset, total) == Link(offset, limit)

\* JsonApiLinker
LinkerFirst(limit, offset, total) == Link(0, limit)

LinkerPrev(limit, offset, total) ==
    IF offset < 0 THEN Absent
    ELSE IF offset - limit < 0 THEN LinkerFirst(limit, offset, total)
    ELSE Link(offset - limit, limit)

LinkerNext(limit, offset, total) ==
    IF offset + limit >= total THEN Absent ELSE Link(offset + limit, limit)

LinkerLast(limit, offset, total) ==
    LET lastOffset == LastOffset(limit, total)
    IN IF lastOffset < 0 THEN Absent ELSE Link(lastOffset, limit)

LinkerSelf(limit, offset, total) == Link(offset, limit)

\* LimitOffsetPaginationStrategy: `-1 ? options.offset : offset` is always
\* options.offset, whatever offset a link asks for
StrategyRecords(limit, offset, total, target) == Link(offset, limit)

StrategyFirst(limit, offset, total) == StrategyRecords(limit, offset, total, 0)

StrategyPrev(limit, offset, total) ==
    IF offset < limit THEN Absent
    ELSE StrategyRecords(limit, offset, total, offset - limit)

StrategyNext(limit, offset, total) ==
    IF total >= offset + limit THEN Absent
    ELSE StrategyRecords(limit, offset, total, offset + limit)

StrategyLast(limit, offset, total) ==
    LET lastOffset == LastOffset(limit, total)
    IN IF lastOffset < 0 THEN Absent
       ELSE StrategyRecords(limit, offset, total, lastOffset)

StrategySelf(limit, offset, total) == StrategyRecords(limit, offset, total, -1)

\* CollectionOffsetPaginator: pagination() has no self member
PaginatorFirst(limit, offset, total) == Link(0, limit)

PaginatorLast(limit, offset, total) ==
    Link(Max(LastOffset(limit, total), total - limit), limit)

PaginatorNext(limit, offset, total) ==
    Link(Min(offset + limit, offset - limit), limit)

PaginatorPrevious(limit, offset, total) == Link(Max(offset - limit, 0), limit)

Variants == {"state", "linker", "strategy", "paginator"}

LinksOf(variant, limit, offset, total) ==
    CASE variant = "state" ->
            LinkSet(StateSelf(limit, offset, total), StateFirst(limit, offset, total),
                    StateLast(limit, offset, total), StateNext(limit, offset, total),
                    StatePrevious(limit, offset, total))
      [] variant = "linker" ->
            LinkSet(LinkerSelf(limit, offset, total), LinkerFirst(limit, offset, total),
                    LinkerLast(limit, offset, total), LinkerNext(limit, offset, total),
                    LinkerPrev(limit, offset, total))
      [] variant = "strategy" ->
            LinkSet(StrategySelf(limit, offset, total), StrategyFirst(limit, offset, total),
                    StrategyLast(limit, offset, total), StrategyNext(limit, offset, total),
                    StrategyPrev(limit, offset, total))
      [] variant = "paginator" ->
            LinkSet(Absent, PaginatorFirst(limit, offset, total),
                    PaginatorLast(limit, offset, total), PaginatorNext(limit, offset, total),
                    PaginatorPrevious(limit, offset, total))

(***************************************************************************)
(* The query string of a link.  Each calculator writes its links from the  *)
(* descriptor its request decorator produced.                              *)
(***************************************************************************)
RECURSIVE DigitsOf(_)
DigitsOf(n) == IF n < 10 THEN <<n>> ELSE Append(DigitsOf(n \div 10), n % 10)

\* a machine integer as a number
NumOfInt(n) == IF n < 0 THEN Num(TRUE, DigitsOf(-n)) ELSE Num(FALSE, DigitsOf(n))

\* the query string of a collection request: its other parameters followed
\* by page[offset] and page[limit]
RequestString(rest, limit, offset) ==
    rest \o << Param(<<Str("page"), Str("offset")>>, NumToString(NumOfInt(offset))),
               Param(<<Str("page"), Str("limit")>>, NumToString(NumOfInt(limit))) >>

\* a written link: the separator after the resource url and the parameters
Href(sep, params) == [present |-> TRUE, sep |-> sep, params |-> params]

NoHref == [present |-> FALSE, sep |-> "", params |-> <<>>]

NoHrefs == LinkSet(NoHref, NoHref, NoHref, NoHref, NoHref)

\* `${url}?${qs.stringify({...this.parsed, page})}` with page = {limit, offset}
StateBuild(parsed, limit, offset) ==
    LET page == JObj(<< <<Str("limit"), JNum(NumOfInt(limit))>>,
                        <<Str("offset"), JNum(NumOfInt(offset))>> >>)
    IN Href("?", QsStringify(ObjSet(parsed, Str("page"), page)))

\* sort.map(i => i.dir === "desc" ? `-${i.field}` : i.field).join(",")
RevertSort(sort) ==
    JoinComma([i \in 1..Len(sort.v) |->
                  IF Get(sort.v[i], Str("dir")) = JStr(Str("desc"))
                  THEN <<"-">> \o Get(sort.v[i], Str("field")).v
                  ELSE Get(sort.v[i], Str("field")).v])

\* JsonApiLinker.#builder(page?): page, sort and filter, nothing else
LinkerBuilder(options, page) ==
    LET own == Get(options, Str("page"))
        p1 == IF Truthy(own)
              THEN ObjSet(EmptyObj, Str("page"),
                          JObj(<< <<Str("offset"), Get(own, Str("offset"))>>,
                                  <<Str("limit"), Get(own, Str("limit"))>> >>))
              ELSE EmptyObj
        p2 == IF Truthy(page)
              THEN ObjSet(p1, Str("page"),
                          JObj(<< <<Str("offset"), Get(page, Str("offset"))>>,
                                  <<Str("limit"), Get(page, Str("limit"))>> >>))
              ELSE p1
        p3 == IF Truthy(Get(options, Str("sort")))
              THEN ObjSet(p2, Str("sort"), JStr(RevertSort(Get(options, Str("sort")))))
              ELSE p2
        p4 == IF Truthy(Get(options, Str("filter")))
              THEN ObjSet(p3, Str("filter"), Get(options, Str("filter")))
              ELSE p3
    IN Href("?", QsStringify(p4))

\* BasePaginationStrategy.createParams: sort and filter
BaseCreateParams(options) ==
    JObj(<< <<Str("sort"), JStr(RevertSort(Get(options, Str("sort"))))>>,
            <<Str("filter"), Get(options, Str("filter"))>> >>)

\* LimitOffsetPaginationStrategy.createParams(offset): `-1 ? options.offset
\* : offset` is options.offset for every offset
StrategyCreateParams(options, offset) ==
    LET own == Get(options, Str("page"))
    IN ObjSet(BaseCreateParams(options), Str("page"),
              JObj(<< <<Str("offset"), Get(own, Str("offset"))>>,
                      <<Str("limit"), Get(own, Str("limit"))>> >>))

\* `${this.url}/${qs.stringify(this.createParams(offset))}`
StrategyHref(options, offset) == Href("/", QsStringify(StrategyCreateParams(options, offset)))

\* CollectionOffsetPaginator.#build: {...rest, limit, offset, ...args}
PaginatorBuild(rest, limit, offset, argsOffset) ==
    LET q1 == ObjSet(rest, Str("limit"), JNum(NumOfInt(limit)))
        q2 == ObjSet(q1, Str("offset"), JNum(NumOfInt(offset)))
    IN Href("?", QsStringify(ObjSet(q2, Str("offset"), JNum(NumOfInt(argsOffset)))))

\* the written form of one link of a calculator, for the request string
HrefOf(variant, searchString, limit, offset, l) ==
    IF ~l.present THEN NoHref
    ELSE CASE variant = "state" -> StateBuild(Search(searchString), l.limit, l.offset)
           [] variant = "linker" ->
                LinkerBuilder(SearchStrategy(searchString),
                              OffsetPage(NumOfInt(l.offset), NumOfInt(l.limit)))
           [] variant = "strategy" -> StrategyHref(SearchStrategy(searchString), l.offset)
           [] variant = "paginator" ->
                PaginatorBuild(queryStringParser(searchString), limit, offset, l.offset)

\* self of JsonApiLinker is #builder() without a page
SelfHrefOf(variant, searchString, limit, offset, l) ==
    IF variant = "linker" /\ l.present
    THEN LinkerBuilder(SearchStrategy(searchString), Undefined)
    ELSE HrefOf(variant, searchString, limit, offset, l)

HrefsOf(variant, rest, limit, offset, links) ==
    LET searchString == RequestString(rest, limit, offset)
    IN LinkSet(SelfHrefOf(variant, searchString, limit, offset, links.self),
               HrefOf(variant, searchString, limit, offset, links.first),
               HrefOf(variant, searchString, limit, offset, links.last),
               HrefOf(variant, searchString, limit, offset, links.next),
               HrefOf(variant, searchString, limit, offset, links.prev))

\* the parameters of a collection request other than its page block
PagingQueries ==
    { <<>>,
      << Param(<<Str("sort")>>, <<"-", "created", ",", "title">>) >>,
      << Param(<<Str("filter"), Str("status")>>, <<"published">>) >>,
      << Param(<<Str("fields"), Str("articles")>>, <<"title", ",", "body">>),
         Param(<<Str("include")>>, <<"author">>),
         Param(<<Str("foo")>>, <<"bar">>) >>,
      << Param(<<Str("sort")>>, <<"-", "created", ",", "title">>),
         Param(<<Str("filter"), Str("status")>>, <<"published">>),
         Param(<<Str("fields"), Str("articles")>>, <<"title", ",", "body">>),
         Param(<<Str("include")>>, <<"author">>),
         Param(<<Str("foo")>>, <<"bar">>) >> }

(***************************************************************************)
(* The request pipeline on one query string: the string is put together    *)
(* parameter by parameter, parsed, serialized back and parsed again.       *)
(***************************************************************************)
P1(a, val) == Param(<<Str(a)>>, val)

P2(a, b, val) == Param(<<Str(a), Str(b)>>, val)

P3(a, b, c, val) == Param(<<Str(a), Str(b), Str(c)>>, val)

\* the parameters a query string is drawn from
ParamChoices ==
    << P1("sort", <<"-", "created", ",", " ", "title", ",">>),
      P1("sort", <<"title", ",", "2", ",", "-", "title">>),
      P2("page", "offset", <<"2", "0">>),
      P2("page", "offset", <<"-", "1">>),
      P2("page", "offset", <<"9", "0", "0", "7", "1", "9", "9", "2", "5", "4", "7", "4", "0", "9", "9", "2">>),
      P2("page", "offset", <<"9", "0", "0", "7", "1", "9", "9", "2", "5", "4", "7", "4", "0", "9", "9", "1">>),
      P2("page", "limit", <<"5">>),
      P2("page", "limit", <<"0">>),
      P2("page", "limit", <<"abc">>),
      P2("page", "cursor", <<"abc">>),
      P2("page", "field", <<"name">>),
      P2("page", "field", <<>>),
      P1("page", <<"5">>),
      P2("filter", "status", <<"published">>),
      P3("filter", "created", "gte", <<"2", "0", "2", "4">>),
      P1("filter", <<>>),
      P2("fields", "articles", <<"title", ",", "body">>),
      P2("fields", "people", <<>>),
      P1("fields", <<"title">>),
      P1("include", <<"author", ",", ",", "comments", ".", "author", ",", "author">>),
      P1("include", <<>>),
      P1("foo", <<"bar">>) >>

\* position of a parameter among the choices
ChoiceIndex(p) == CHOOSE i \in 1..Len(ParamChoices) : ParamChoices[i] = p

\* a string is put together in the order of the choices: the same parameters
\* in another order are left out
InOrder(params, i) ==
    IF params = <<>> THEN TRUE ELSE ChoiceIndex(params[Len(params)]) <= i

IsPrefix(a, b) == Len(a) <= Len(b) /\ SubSeq(b, 1, Len(a)) = a

\* qs resolves a key used both as a value and as a container by rules that
\* are not modelled: such strings are left out
Compatible(params, p) ==
    \A i \in 1..Len(params) :
        \/ params[i].path = p.path
        \/ (~IsPrefix(params[i].path, p.path) /\ ~IsPrefix(p.path, params[i].path))

(***************************************************************************)
(* Document and resource builders (packages/std-json-api/builder.ts) and   *)
(* the functional builders (packages/std-json-api/builder-fn.ts).          *)
(*                                                                         *)
(* Objects live in a heap: a builder holds the address of its object, and  *)
(* a value handed to the caller is an address, so that two names of one    *)
(* object are told apart from two equal objects.                           *)
(***************************************************************************)
\* calls made in one scenario (setters, build(), functional builders)
MaxCalls == 3

Null == [t |-> "null", v |-> <<>>]

\* no setter has a throw statement: every call returns the builder
Call(n, op, arg) == [n |-> n, op |-> op, arg |-> arg, threw |-> FALSE]

NoCall == Call(0, "none", Undefined)

Version10 == JObj(<< <<Str("version"), JStr(<<"1", ".", "0">>)>> >>)

\* protected readonly doc: T = { jsonapi: { version: "1.0" } }
NewDoc == JObj(<< <<Str("jsonapi"), Version10>> >>)

\* builder.ts starts a document with the version member only; the builder
\* that the later test file runs starts it with an empty links object too
BuilderVersions == {"builder", "linked"}

InitialDoc(version) ==
    IF version = "linked" THEN ObjSet(NewDoc, Str("links"), EmptyObj) ELSE NewDoc

\* this.resource = { type, id }: the key id exists even when id is undefined
NewResource(type, id) == JObj(<< <<Str("type"), type>>, <<Str("id"), id>> >>)

\* doc[key] = input; return doc
createUpdateFn(key, input, doc) == ObjSet(doc, Str(key), input)

UpdateFn(key, input) == [key |-> key, input |-> input]

RECURSIVE ApplyFns(_, _)
\* for (const fn of fns) doc = fn(doc)
ApplyFns(fns, doc) ==
    IF fns = <<>> THEN doc
    ELSE ApplyFns(Tail(fns), createUpdateFn(Head(fns).key, Head(fns).input, doc))

\* let doc = sub ? {} : {jsonapi: {version: "1.0"}}, then the update functions
createPipeFn(sub, fns) == ApplyFns(fns, IF sub THEN EmptyObj ELSE NewDoc)

\* relationshipObject of the zod schema: the list of issues of superRefine
relationshipObject(rel) ==
    LET links == Get(rel, Str("links"))
        noMember == /\ ~Truthy(links)
                    /\ ~Truthy(Get(rel, Str("data")))
                    /\ ~Truthy(Get(rel, Str("meta")))
        noLinks == \/ ~IsObject(links)
                   \/ ~Truthy(Get(links, Str("self")))
                   \/ ~Truthy(Get(links, Str("related")))
    IN (IF noMember THEN <<"member">> ELSE <<>>) \o (IF noLinks THEN <<"links">> ELSE <<>>)

\* inputs of the setters
Identifier == JObj(<< <<Str("type"), JStr(Str("people"))>>, <<Str("id"), JStr(Str("9"))>> >>)

ArticleOne == NewResource(JStr(Str("articles")), JStr(Str("1")))

MetaInputs == {JObj(<< <<Str("total"), JNum(One)>> >>), JObj(<< <<Str("total"), JNum(Ten)>> >>)}

LinksInputs == {JObj(<< <<Str("self"), JStr(Str("/articles"))>> >>),
                JObj(<< <<Str("self"), JStr(Str("/people"))>> >>)}

DataInputs == {ArticleOne, JArr(<<ArticleOne>>), Null}

IdInputs == {Undefined, JStr(Str("1"))}

LidInputs == {JStr(Str("tmp"))}

RelationshipsInputs ==
    {JObj(<< <<Str("author"), EmptyObj>> >>),
     JObj(<< <<Str("author"), JObj(<< <<Str("data"), Identifier>> >>)>> >>)}

PipeInputs ==
    {<<>>,
     <<UpdateFn("meta", JObj(<< <<Str("total"), JNum(One)>> >>))>>,
     <<UpdateFn("data", ArticleOne), UpdateFn("links", JObj(<< <<Str("self"), JStr(Str("/articles"))>> >>))>>}

DocumentBuilders == {"base", "single", "collection"}

\* the result of an adapter call that has not read the store yet
NotYet == [done |-> FALSE, value |-> {}]

Done(value) == [done |-> TRUE, value |-> value]

NoResponse == [data |-> {}, total |-> 0]

Init ==
    /\ raw = <<>>
    /\ pc = "input"
    /\ query = Undefined
    /\ qstr = <<>>
    /\ query2 = Undefined
    /\ pgVariant = "none"
    /\ pgLimit = 1
    /\ pgOffset = 0
    /\ pgTotal = 0
    /\ pgLinks = NoLinks
    /\ pgRest = <<>>
    /\ pgHrefs = NoHrefs
    /\ bVersion = "none"
    /\ bKind = "none"
    /\ bRef = 0
    /\ heap = <<>>
    /\ bBuilt = <<>>
    /\ bCall = NoCall
    /\ hPc = "idle"
    /\ hParsed = Undefined
    /\ hQuery = Undefined
    /\ store = {}
    /\ hResults = NotYet
    /\ hTotal = NotYet
    /\ hFetchedFrom = {}
    /\ hResponse = NoResponse

AddParam(i) ==
    /\ pc = "input"
    /\ Len(raw) < MaxParams
    /\ InOrder(raw, i)
    /\ Compatible(raw, ParamChoices[i])
    /\ raw' = Append(raw, ParamChoices[i])
    /\ UNCHANGED <<pc, query, qstr, query2>>
    /\ UNCHANGED pagingVars
    /\ UNCHANGED otherVars

Parse ==
    /\ pc = "input"
    /\ query' = parser(raw)
    /\ pc' = "parsed"
    /\ UNCHANGED <<raw, qstr, query2>>
    /\ UNCHANGED pagingVars
    /\ UNCHANGED otherVars

Serialize ==
    /\ pc = "parsed"
    /\ query # Threw
    /\ qstr' = serializer(query)
    /\ pc' = "serialized"
    /\ UNCHANGED <<raw, query, query2>>
    /\ UNCHANGED pagingVars
    /\ UNCHANGED otherVars

Reparse ==
    /\ pc = "serialized"
    /\ query2' = parser(qstr)
    /\ pc' = "reparsed"
    /\ UNCHANGED <<raw, query, qstr>>
    /\ UNCHANGED pagingVars
    /\ UNCHANGED otherVars

Next ==
    \/ \E i \in 1..Len(ParamChoices) : AddParam(i)
    \/ Parse
    \/ Serialize
    \/ Reparse

Spec == Init /\ [][Next]_vars

(***************************************************************************)
(* A collection request to one of the pagination calculators, which        *)
(* computes the link set of the response from (limit, offset, total).      *)
(***************************************************************************)
\* a calculator is constructed for one request and its fields are readonly:
\* the link set of a request depends on nothing earlier
Request(variant, rest, limit, offset, total) ==
    /\ pgVariant = "none"
    /\ pgVariant' = variant
    /\ pgLimit' = limit
    /\ pgOffset' = offset
    /\ pgTotal' = total
    /\ pgRest' = rest
    /\ pgLinks' = LinksOf(variant, limit, offset, total)
    /\ pgHrefs' = HrefsOf(variant, rest, limit, offset, LinksOf(variant, limit, offset, total))
    /\ UNCHANGED parserVars
    /\ UNCHANGED otherVars

NextPaging ==
    \E variant \in Variants, rest \in PagingQueries, limit \in 1..MaxLimit,
       offset \in 0..MaxOffset, total \in 0..MaxTotal :
        Request(variant, rest, limit, offset, total)

SpecPaging == Init /\ [][NextPaging]_vars

(***************************************************************************)
(* Calls on a builder.  Every setter is an assignment to one key of the    *)
(* builder's object and build() hands out the address of that object.      *)
(***************************************************************************)
\* new JsonApiBaseBuilder(), new JsonApiDocumentBuilder(),
\* new JsonApiCollectionDocumentBuilder()
NewDocumentBuilder(version, kind) ==
    /\ bKind = "none"
    /\ bVersion' = version
    /\ bKind' = kind
    /\ heap' = Append(heap, InitialDoc(version))
    /\ bRef' = Len(heap) + 1
    /\ UNCHANGED <<bBuilt, bCall>>
    /\ UNCHANGED <<parserVars, pagingVars, handlerVars>>

\* new JsonApiResourceBuilder(type, id?)
NewResourceBuilder(type, id) ==
    /\ bKind = "none"
    /\ bVersion' = "builder"
    /\ bKind' = "resource"
    /\ heap' = Append(heap, NewResource(type, id))
    /\ bRef' = Len(heap) + 1
    /\ UNCHANGED <<bBuilt, bCall>>
    /\ UNCHANGED <<parserVars, pagingVars, handlerVars>>

\* this.doc[key] = input; return this
Assign(op, key, input) ==
    /\ bCall.n < MaxCalls
    /\ heap' = [heap EXCEPT ![bRef] = createUpdateFn(key, input, @)]
    /\ bCall' = Call(bCall.n + 1, op, input)
    /\ UNCHANGED <<bVersion, bKind, bRef, bBuilt>>
    /\ UNCHANGED <<parserVars, pagingVars, handlerVars>>

\* return this.doc / return this.resource
Return(op) ==
    /\ bCall.n < MaxCalls
    /\ bBuilt' = Append(bBuilt, [ref |-> bRef, seen |-> heap[bRef]])
    /\ bCall' = Call(bCall.n + 1, op, Undefined)
    /\ UNCHANGED <<bVersion, bKind, bRef, heap>>
    /\ UNCHANGED <<parserVars, pagingVars, handlerVars>>

JsonApiBaseBuilder_metadata(meta) ==
    /\ bKind \in DocumentBuilders
    /\ Assign("metadata", "meta", meta)

JsonApiBaseBuilder_links(links) ==
    /\ bKind \in DocumentBuilders
    /\ Assign("links", "links", links)

JsonApiBaseBuilder_build ==
    /\ bKind \in DocumentBuilders
    /\ Return("build")

\* the parameter type is checked by the compiler only: a caller that is not
\* type-checked passes either shape
JsonApiDocumentBuilder_data(data) ==
    /\ bKind = "single"
    /\ Assign("data", "data", data)

JsonApiCollectionDocumentBuilder_data(data) ==
    /\ bKind = "collection"
    /\ Assign("data", "data", data)

JsonApiDocumentBuilder_included(included) ==
    /\ bKind \in {"single", "collection"}
    /\ Assign("included", "included", included)

JsonApiResourceBuilder_lid(lid) ==
    /\ bKind = "resource"
    /\ Assign("lid", "lid", lid)

JsonApiResourceBuilder_attributes(attributes) ==
    /\ bKind = "resource"
    /\ Assign("attributes", "attributes", attributes)

JsonApiResourceBuilder_relationships(relationships) ==
    /\ bKind = "resource"
    /\ Assign("relationships", "relationships", relationships)

JsonApiResourceBuilder_links(links) ==
    /\ bKind = "resource"
    /\ Assign("links", "links", links)

JsonApiResourceBuilder_meta(meta) ==
    /\ bKind = "resource"
    /\ Assign("meta", "meta", meta)

JsonApiResourceBuilder_build ==
    /\ bKind = "resource"
    /\ Return("build")

\* SingleDocument(...fns), Resource(...fns): a new object for every call
Pipe(sub, fns) ==
    /\ bCall.n < MaxCalls
    /\ heap' = Append(heap, createPipeFn(sub, fns))
    /\ bBuilt' = Append(bBuilt, [ref |-> Len(heap) + 1, seen |-> createPipeFn(sub, fns)])
    /\ bCall' = Call(bCall.n + 1, "pipe", Undefined)
    /\ UNCHANGED <<bVersion, bKind, bRef>>
    /\ UNCHANGED <<parserVars, pagingVars, handlerVars>>

NextBuilder ==
    \/ \E version \in BuilderVersions, kind \in DocumentBuilders : NewDocumentBuilder(version, kind)
    \/ \E id \in IdInputs : NewResourceBuilder(JStr(Str("articles")), id)
    \/ \E meta \in MetaInputs : JsonApiBaseBuilder_metadata(meta)
    \/ \E links \in LinksInputs : JsonApiBaseBuilder_links(links)
    \/ JsonApiBaseBuilder_build
    \/ \E data \in DataInputs : JsonApiDocumentBuilder_data(data)
    \/ \E data \in DataInputs : JsonApiCollectionDocumentBuilder_data(data)
    \/ JsonApiDocumentBuilder_included(JArr(<<Identifier>>))
    \/ \E lid \in LidInputs : JsonApiResourceBuilder_lid(lid)
    \/ JsonApiResourceBuilder_attributes(JObj(<< <<Str("title"), JStr(Str("Hello"))>> >>))
    \/ \E relationships \in RelationshipsInputs : JsonApiResourceBuilder_relationships(relationships)
    \/ \E links \in LinksInputs : JsonApiResourceBuilder_links(links)
    \/ \E meta \in MetaInputs : JsonApiResourceBuilder_meta(meta)
    \/ JsonApiResourceBuilder_build
    \/ \E sub \in BOOLEAN, fns \in PipeInputs : Pipe(sub, fns)

SpecBuilder == Init /\ [][NextBuilder]_vars

(***************************************************************************)
(* A client that pages through a collection: it requests the target of the *)
(* first link and then the target of the next link of every response, as   *)
(* long as there is one.  Limit, total and the other parameters are those  *)
(* of the first request.                                                   *)
(***************************************************************************)
\* the calculators that give every link its own offset
FollowVariants == {"state", "linker"}

\* the request for the target of the first link (offset 0)
Start(variant, rest, limit, total) ==
    /\ pgVariant = "none"
    /\ pgVariant' = variant
    /\ pgLimit' = limit
    /\ pgOffset' = LinksOf(variant, limit, 0, total).first.offset
    /\ pgTotal' = total
    /\ pgRest' = rest
    /\ pgLinks' = LinksOf(variant, limit, 0, total)
    /\ pgHrefs' = HrefsOf(variant, rest, limit, 0, LinksOf(variant, limit, 0, total))
    /\ UNCHANGED parserVars
    /\ UNCHANGED otherVars

\* the page and the link set of the response to a request for the target
\* of the next link
FollowNext ==
    /\ pgVariant # "none"
    /\ pgLinks.next.present
    /\ pgOffset' = pgLinks.next.offset
    /\ pgLinks' = LinksOf(pgVariant, pgLimit, pgLinks.next.offset, pgTotal)

\* the request for the target of the next link of the last response
Follow ==
    /\ FollowNext
    /\ pgHrefs' = HrefsOf(pgVariant, pgRest, pgLimit, pgLinks.next.offset,
                          LinksOf(pgVariant, pgLimit, pgLinks.next.offset, pgTotal))
    /\ UNCHANGED <<pgVariant, pgLimit, pgTotal, pgRest>>
    /\ UNCHANGED parserVars
    /\ UNCHANGED otherVars

NextFollow ==
    \/ \E variant \in FollowVariants, rest \in PagingQueries,
          limit \in 1..MaxLimit, total \in 1..MaxTotal :
            Start(variant, rest, limit, total)
    \/ Follow

\* the client keeps following: a next link that is there is requested.
\* Follow is enabled exactly when FollowNext is, and every Follow step is a
\* FollowNext step that changes the page or the link set.
SpecFollow == Init /\ [][NextFollow]_vars /\ WF_<<pgOffset, pgLinks>>(FollowNext)

(***************************************************************************)
(* The collection-fetch handler of the controller                          *)
(* (packages/nestjs-rest/json-api-controller.ts) over a store that other   *)
(* requests write to.  The handler starts the record fetch and the count   *)
(* together and awaits both: each reads the store in a step of its own.    *)
(***************************************************************************)
\* records that the store can hold
MaxRecords == 2

Statuses == {"draft", "published"}

Record(id, status) == [id |-> id, status |-> status]

\* the resource of the requests and its descriptor.listAttributes
ResourceId == Str("articles")

ListAttributes == <<Str("title")>>

\* query strings of the collection requests
HandlerInputs ==
    {<<>>,
     <<P2("fields", "articles", <<"title", ",", "body">>)>>,
     <<P2("fields", "people", <<"name">>)>>,
     <<P2("filter", "status", <<"published">>)>>}

\* acc[attr] = 1; return acc
toFields(acc, attr) == ObjSet(acc, attr, JNum(One))

RECURSIVE ReduceToFields(_, _)
\* listAttributes.reduce(toFields, {})
ReduceToFields(attrs, acc) ==
    IF attrs = <<>> THEN acc
    ELSE ReduceToFields(Tail(attrs), toFields(acc, Head(attrs)))

\* if (!query.fields[resourceId]) query.fields[resourceId] = ...: the
\* assignment is into the Query object that the handler was given
DefaultFields(q, resourceId) ==
    LET fields == Get(q, Str("fields"))
    IN IF ~Truthy(Get(fields, resourceId))
       THEN ObjSet(q, Str("fields"),
                   ObjSet(fields, resourceId, ReduceToFields(ListAttributes, EmptyObj)))
       ELSE q

\* collection.find(filter): the default filterFactory passes query.filter on
AdapterMultiple(st, q) ==
    LET status == Get(Get(q, Str("filter")), Str("status"))
    IN {r \in st : status = Undefined \/ status = JStr(Str(r.status))}

\* collection.estimatedDocumentCount(): the documents of the collection
AdapterCount(st, q) == Cardinality(st)

\* @JsonQuery(): the parser returns the Query of the request
JsonQuery(input) ==
    /\ hPc = "idle"
    /\ hParsed' = parser(input)
    /\ hQuery' = parser(input)
    /\ hPc' = "parsed"
    /\ UNCHANGED <<store, hResults, hTotal, hFetchedFrom, hResponse>>
    /\ UNCHANGED <<parserVars, pagingVars, builderVars>>

\* multiple() up to its await: the default fieldset, then both adapter calls
\* are started
multiple ==
    /\ hPc = "parsed"
    /\ hQuery' = DefaultFields(hQuery, ResourceId)
    /\ hPc' = "awaiting"
    /\ UNCHANGED <<hParsed, store, hResults, hTotal, hFetchedFrom, hResponse>>
    /\ UNCHANGED <<parserVars, pagingVars, builderVars>>

\* res.adapter.multiple(query) reads the store
adapter_multiple ==
    /\ hPc = "awaiting"
    /\ ~hResults.done
    /\ hResults' = Done(AdapterMultiple(store, hQuery))
    /\ hFetchedFrom' = store
    /\ UNCHANGED <<hPc, hParsed, hQuery, store, hTotal, hResponse>>
    /\ UNCHANGED <<parserVars, pagingVars, builderVars>>

\* res.adapter.count(query) reads the store
adapter_count ==
    /\ hPc = "awaiting"
    /\ ~hTotal.done
    /\ hTotal' = Done(AdapterCount(store, hQuery))
    /\ UNCHANGED <<hPc, hParsed, hQuery, store, hResults, hFetchedFrom, hResponse>>
    /\ UNCHANGED <<parserVars, pagingVars, builderVars>>

\* multiple() after the await: the collection document with meta.total
multiple_respond ==
    /\ hPc = "awaiting"
    /\ hResults.done
    /\ hTotal.done
    /\ hResponse' = [data |-> hResults.value, total |-> hTotal.value]
    /\ hPc' = "responded"
    /\ UNCHANGED <<hParsed, hQuery, store, hResults, hTotal, hFetchedFrom>>
    /\ UNCHANGED <<parserVars, pagingVars, builderVars>>

\* POST :resourceId of another request: adapter.create inserts a record
create(id, status) ==
    /\ \A r \in store : r.id # id
    /\ store' = store \cup {Record(id, status)}
    /\ UNCHANGED <<hPc, hParsed, hQuery, hResults, hTotal, hFetchedFrom, hResponse>>
    /\ UNCHANGED <<parserVars, pagingVars, builderVars>>

\* PATCH :resourceId/:id of another request: adapter.update sets attributes
update(id, status) ==
    /\ \E r \in store : r.id = id /\ r.status # status
    /\ store' = {IF r.id = id THEN Record(id, status) ELSE r : r \in store}
    /\ UNCHANGED <<hPc, hParsed, hQuery, hResults, hTotal, hFetchedFrom, hResponse>>
    /\ UNCHANGED <<parserVars, pagingVars, builderVars>>

\* DELETE :resourceId/:id of another request: adapter.remove deletes it
remove(id) ==
    /\ \E r \in store : r.id = id
    /\ store' = {r \in store : r.id # id}
    /\ UNCHANGED <<hPc, hParsed, hQuery, hResults, hTotal, hFetchedFrom, hResponse>>
    /\ UNCHANGED <<parserVars, pagingVars, builderVars>>

NextHandler ==
    \/ \E input \in HandlerInputs : JsonQuery(input)
    \/ multiple
    \/ adapter_multiple
    \/ adapter_count
    \/ multiple_respond
    \/ \E id \in 1..MaxRecords, status \in Statuses : create(id, status)
    \/ \E id \in 1..MaxRecords, status \in Statuses : update(id, status)
    \/ \E id \in 1..MaxRecords : remove(id)

SpecHandler == Init /\ [][NextHandler]_vars

(***************************************************************************)
(* Properties of parser and serializer (specification Spec)                *)
(***************************************************************************)
PagePath(member) == <<Str("page"), Str(member)>>

HasPath(params, path) == \E i \in 1..Len(params) : params[i].path = path

IsPageParam(p) == Head(p.path) = Str("page")

HasPageParams(params) == \E i \in 1..Len(params) : IsPageParam(params[i])

NotPageParam(p) == ~IsPageParam(p)

WithoutPageParams(params) == SelectSeq(params, NotPageParam)

PageOf(q) == Get(q, Str("page"))

IsOffsetPage(p) == p.t = "obj" /\ HasKey(p, Str("offset"))

IsCursorPage(p) == p.t = "obj" /\ HasKey(p, Str("cursor"))

Parsed == pc # "input"

\* a safe integer, as the digits say it
SafeMagnitude(n) ==
    /\ n.t = "num" /\ ~n.v.nan
    /\ \/ Len(n.v.mag) < 16
       \/ Len(n.v.mag) = 16 /\ LexLeq(n.v.mag, <<9, 0, 0, 7, 1, 9, 9, 2, 5, 4, 7, 4, 0, 9, 9, 1>>)

SafeNonNegative(n) == SafeMagnitude(n) /\ ~n.v.neg

SafePositive(n) == SafeNonNegative(n) /\ n.v.mag # <<0>>

KeySet(x) == {Keys(x)[i] : i \in 1..Len(Keys(x))}

WellFormedOffsetPage(p) ==
    /\ p.t = "obj" /\ Len(p.v) = 2
    /\ KeySet(p) = {Str("offset"), Str("limit")}
    /\ SafeNonNegative(Get(p, Str("offset")))
    /\ SafePositive(Get(p, Str("limit")))

WellFormedCursorPage(p) ==
    /\ p.t = "obj" /\ Len(p.v) = 3
    /\ KeySet(p) = {Str("cursor"), Str("field"), Str("limit")}
    /\ Get(p, Str("cursor")).t = "str"
    /\ Get(p, Str("field")).t = "str"
    /\ SafePositive(Get(p, Str("limit")))

\* C1: parsing the serialization of a parsed Query gives a Query structurally
\* equal to it (key order aside), for the reserved keys and for unknown keys
C1_RoundTrip == pc = "reparsed" => StructEq(query2, query)

\* C2: whenever the page block of the input has a cursor key, the parsed page
\* is never an offset page, whatever offset and limit keys come with it
C2_CursorNeverOffset ==
    (Parsed /\ HasPath(raw, PagePath("cursor"))) => ~IsOffsetPage(PageOf(query))

InvalidOffsetText(val) ==
    LET n == JNum(ParseInt(val)) IN ~SafeNonNegative(n)

InvalidLimitText(val) ==
    LET n == JNum(ParseInt(val)) IN ~SafePositive(n)

InvalidOffsetGiven ==
    \E i \in 1..Len(raw) :
        raw[i].path = PagePath("offset") /\ InvalidOffsetText(raw[i].val)

InvalidLimitGiven ==
    \E i \in 1..Len(raw) :
        raw[i].path = PagePath("limit") /\ InvalidLimitText(raw[i].val)

\* C3: in an offset page block (one without a cursor key), a provided offset
\* that is no non-negative safe integer, or a provided limit that is no
\* positive safe integer, leaves the Query without any page restriction
C3_InvalidPageDropped ==
    (Parsed /\ ~HasPath(raw, PagePath("cursor")) /\ (InvalidOffsetGiven \/ InvalidLimitGiven))
        => ~Truthy(PageOf(query))

\* C4: a parsed page is exactly one of the two shapes: an offset page with a
\* non-negative safe offset and a positive safe limit, or a cursor page with a
\* string cursor, a string field and a positive safe limit
C4_PageShape ==
    Parsed =>
        \/ PageOf(query) = Undefined
        \/ WellFormedOffsetPage(PageOf(query))
        \/ WellFormedCursorPage(PageOf(query))

C4_Witness ==
    /\ pc = "parsed"
    /\ WellFormedCursorPage(PageOf(query))
    /\ HasPath(raw, PagePath("offset"))
    /\ HasPath(raw, PagePath("limit"))

\* C5: the parser returns a Query and never raises, on the first parse and on
\* the parse of a serialized Query
C5_NeverThrows ==
    /\ Parsed => (query # Threw /\ query.t = "obj")
    /\ pc = "reparsed" => (query2 # Threw /\ query2.t = "obj")

C5_Witness ==
    /\ pc = "parsed"
    /\ HasPath(raw, <<Str("page")>>)
    /\ HasPath(raw, <<Str("filter")>>)
    /\ query.t = "obj"

NotPageEntry(e) == e[1] # Str("page")

WithoutPage(q) == JObj(SelectSeq(q.v, NotPageEntry))

PageRejected == Parsed /\ HasPageParams(raw) /\ ~Truthy(PageOf(query))

\* C6: when the page block is rejected, the sort, filter, fields, include and
\* unknown keys of the Query are what the input without its page parameters
\* parses to
C6_PageRejectionFrame ==
    PageRejected => WithoutPage(query) = WithoutPage(parser(WithoutPageParams(raw)))

C6_Witness ==
    /\ pc = "parsed"
    /\ PageRejected
    /\ InvalidOffsetGiven
    /\ Len(Keys(Get(query, Str("sort")))) > 0

(***************************************************************************)
(* Properties of the pagination links (specification SpecPaging)           *)
(***************************************************************************)
\* C7: the next link is present only if offset + limit < total, and then it
\* targets offset + limit
C7_NextLink ==
    pgVariant \in {"state", "strategy", "paginator"} =>
        (pgLinks.next.present =>
            /\ pgOffset + pgLimit < pgTotal
            /\ pgLinks.next.offset = pgOffset + pgLimit)

\* C8: the prev link is present only if offset - limit >= 0, and then it
\* targets offset - limit: it is not clamped to 0, to first or to last
C8_PrevLink ==
    pgVariant \in {"state", "linker", "paginator"} =>
        (pgLinks.prev.present =>
            /\ pgOffset - pgLimit >= 0
            /\ pgLinks.prev.offset = pgOffset - pgLimit)

\* C9: the last link is absent when total = 0 and otherwise targets
\* floor((total - 1) / limit) * limit
C9_LastLink ==
    pgVariant \in {"state", "paginator"} =>
        IF pgTotal = 0
        THEN ~pgLinks.last.present
        ELSE /\ pgLinks.last.present
             /\ pgLinks.last.offset = ((pgTotal - 1) \div pgLimit) * pgLimit

\* C10: when total = 0 the link set holds only self and first: last, next and
\* prev are absent, for every limit and every offset
C10_EmptyTotal ==
    (pgVariant \in {"state", "linker"} /\ pgTotal = 0) =>
        /\ pgLinks.self.present
        /\ pgLinks.first.present
        /\ ~pgLinks.last.present
        /\ ~pgLinks.next.present
        /\ ~pgLinks.prev.present

\* C11 as stated: whenever total <= limit the last link equals the first link
\* (offset 0), an empty collection included
C11_SinglePageAnyTotal ==
    (pgVariant \in {"state", "paginator"} /\ pgTotal <= pgLimit) =>
        /\ pgLinks.last.present
        /\ pgLinks.last = pgLinks.first
        /\ pgLinks.last.offset = 0

\* C11: whenever 0 < total <= limit (a single page of a collection that is
\* not empty), the last link is present and equals the first link: it targets
\* offset 0
C11_SinglePageLast ==
    (pgVariant \in {"state", "paginator"} /\ 0 < pgTotal /\ pgTotal <= pgLimit) =>
        /\ pgLinks.last.present
        /\ pgLinks.last = pgLinks.first
        /\ pgLinks.last.offset = 0

C11_Witness ==
    /\ pgVariant = "state"
    /\ pgTotal = pgLimit
    /\ pgLimit > 1
    /\ pgOffset > 0
    /\ pgLinks.last.present
    /\ pgLinks.last = pgLinks.first

LinkNames == {"self", "first", "last", "next", "prev"}

NotPageOffset(p) == p.path # <<Str("page"), Str("offset")>>

\* a link carries the request's parameters when its query string, read by
\* qs, has the keys and values of the request's, the page block aside
CarriesRequest(href, rest) ==
    /\ href.sep = "?"
    /\ StructEq(WithoutPage(QsParse(href.params)), WithoutPage(QsParse(rest)))

\* C12: every generated link (self, first, last, prev, next) carries the
\* request's sort, filter, fields, include and unknown parameters unchanged,
\* and two links of one response differ only in the page offset
C12_LinksCarryQuery ==
    pgVariant \in {"state", "linker", "strategy"} =>
        /\ \A n \in LinkNames :
                pgHrefs[n].present => CarriesRequest(pgHrefs[n], pgRest)
        /\ \A n, m \in LinkNames :
                (pgHrefs[n].present /\ pgHrefs[m].present) =>
                    SelectSeq(pgHrefs[n].params, NotPageOffset)
                        = SelectSeq(pgHrefs[m].params, NotPageOffset)

(***************************************************************************)
(* Further properties of the parser (specification Spec)                   *)
(***************************************************************************)
\* the page block of the input as qs reads it
PageBlock == Get(QsParse(raw), Str("page"))

\* the value a page member stands for: parseInt of its text, or the default
\* when the block has no such member
MemberOrDefault(block, member, default) ==
    IF HasKey(block, Str(member))
    THEN JNum(ParseInt(StringOf(Get(block, Str(member)))))
    ELSE JNum(default)

\* C13: in an offset page block, a missing offset is taken as 0 and a missing
\* limit as 10, while a member that was provided keeps its parsed value
C13_OffsetDefaults ==
    (/\ Parsed
     /\ IsObject(PageBlock)
     /\ ~HasKey(PageBlock, Str("cursor"))
     /\ IsOffsetPage(PageOf(query))) =>
        /\ Get(PageOf(query), Str("offset")) = MemberOrDefault(PageBlock, "offset", Zero)
        /\ Get(PageOf(query), Str("limit")) = MemberOrDefault(PageBlock, "limit", Num(FALSE, <<1, 0>>))

FieldsOf(q) == Get(q, Str("fields"))

\* C14: no key of the parsed fields maps to an empty mapping: a resource type
\* for which no field name was requested has no key in fields
C14_NoEmptyFieldset ==
    (Parsed /\ query # Threw) =>
        \A i \in 1..Len(Entries(FieldsOf(query))) :
            Len(Entries(Entries(FieldsOf(query))[i][2])) > 0

SortOf(q) == Get(q, Str("sort"))

\* the sort parameter of the input as qs reads it
SortText == Get(QsParse(raw), Str("sort"))

SortTokens == SplitTrimFilter(SortText.v)

TokenName(tok) == IF Head(tok) = "-" THEN Tail(tok) ELSE tok

TokenDir(tok) == IF Head(tok) = "-" THEN JNum(Num(TRUE, <<1>>)) ELSE JNum(Num(FALSE, <<1>>))

\* the names of the tokens in their order of first appearance
RECURSIVE FirstAppearances(_, _)
FirstAppearances(toks, seen) ==
    IF toks = <<>> THEN seen
    ELSE IF \E i \in 1..Len(seen) : seen[i] = TokenName(Head(toks))
    THEN FirstAppearances(Tail(toks), seen)
    ELSE FirstAppearances(Tail(toks), Append(seen, TokenName(Head(toks))))

\* C15: for every sort string, the parsed sort maps each trimmed non-empty
\* token to -1 if it begins with "-" (the "-" stripped from the name) and to
\* +1 otherwise, keeps the tokens in their order of appearance, and holds no
\* value other than +1 and -1
C15_SortMapping ==
    (Parsed /\ query # Threw /\ IsString(SortText)) =>
        /\ \A i \in 1..Len(SortTokens) :
                Get(SortOf(query), TokenName(SortTokens[i])) = TokenDir(SortTokens[i])
        /\ Keys(SortOf(query)) = FirstAppearances(SortTokens, <<>>)
        /\ \A i \in 1..Len(Entries(SortOf(query))) :
                Entries(SortOf(query))[i][2] \in {JNum(Num(TRUE, <<1>>)), JNum(Num(FALSE, <<1>>))}

IncludeOf(q) == Get(q, Str("include"))

\* the include parameter of the input as qs reads it
IncludeText == Get(QsParse(raw), Str("include"))

HasInclude == Parsed /\ query # Threw /\ HasKey(query, Str("include"))

\* C18: the parsed include is the list of the trimmed non-empty
\* comma-separated paths in their original order, and a path that occurs
\* several times in the input is kept as many times as it occurs
C18_IncludeKeepsDuplicates ==
    HasInclude =>
        /\ IsString(IncludeText)
        /\ LET paths == SplitTrimFilter(IncludeText.v)
           IN /\ Len(IncludeOf(query).v) = Len(paths)
              /\ \A i \in 1..Len(paths) : IncludeOf(query).v[i] = JStr(paths[i])

C18_Witness ==
    /\ pc = "parsed"
    /\ HasInclude
    /\ Len(IncludeOf(query).v) = 3
    /\ IncludeOf(query).v[1] = IncludeOf(query).v[3]
    /\ IncludeOf(query).v[1] # IncludeOf(query).v[2]

\* C19 as stated: the include sequence holds no path twice and no empty entry
C19_IncludeNoDuplicates ==
    HasInclude =>
        /\ \A i \in 1..Len(IncludeOf(query).v) : IncludeOf(query).v[i].v # <<>>
        /\ \A i, j \in 1..Len(IncludeOf(query).v) :
                i # j => IncludeOf(query).v[i] # IncludeOf(query).v[j]

\* the pieces of the include text between commas, trimmed
IncludePieces ==
    LET pieces == SplitComma(IncludeText.v)
    IN [i \in 1..Len(pieces) |-> Trim(pieces[i])]

\* C19: the include sequence contains no empty entry and no entry with
\* surrounding whitespace, and keeps the order in which the paths appeared:
\* two entries are pieces of the input in the same relative position.  A path
\* that was given several times appears several times.
C19_IncludeNoEmpty ==
    HasInclude =>
        /\ \A i \in 1..Len(IncludeOf(query).v) :
                /\ IncludeOf(query).v[i].t = "str"
                /\ IncludeOf(query).v[i].v # <<>>
                /\ Trim(IncludeOf(query).v[i].v) = IncludeOf(query).v[i].v
        /\ \A i, j \in 1..Len(IncludeOf(query).v) :
                i < j => \E a, b \in 1..Len(IncludePieces) :
                            /\ a < b
                            /\ IncludePieces[a] = IncludeOf(query).v[i].v
                            /\ IncludePieces[b] = IncludeOf(query).v[j].v
        /\ Len(IncludeOf(query).v)
              = Cardinality({a \in 1..Len(IncludePieces) : IncludePieces[a] # <<>>})

C19_Witness ==
    /\ pc = "parsed"
    /\ HasInclude
    /\ Len(IncludePieces) = 4
    /\ \E a \in 1..Len(IncludePieces) : IncludePieces[a] = <<>>
    /\ Len(IncludeOf(query).v) = 3
    /\ \E i, j \in 1..Len(IncludeOf(query).v) :
            i # j /\ IncludeOf(query).v[i] = IncludeOf(query).v[j]

IsReservedName(k) ==
    k \in {<<"sort">>, <<"page">>, <<"filter">>, <<"fields">>, <<"include">>}

IsCustomParam(p) == ~IsReservedName(Head(p.path))

\* the input without its reserved parameters
CustomOnly(params) == SelectSeq(params, IsCustomParam)

OtherShape(kind, data) ==
    \/ kind = "single" /\ data.t = "arr"
    \/ kind = "collection" /\ data.t = "obj"

OtherShapeCall == bCall.op = "data" /\ OtherShape(bKind, bCall.arg)

\* C21: a call of data() with primary data of the other shape (a collection
\* on a single-resource builder, a single resource on a collection builder)
\* raises an error at the call and the value is not stored.
C21_OtherShapeRaises ==
    OtherShapeCall =>
        /\ bCall.threw
        /\ Get(heap[bRef], Str("data")) # bCall.arg

\* the object of the document builder, when one was constructed
IsDocumentBuilder == bKind \in DocumentBuilders

\* C22: once meta (or links) of a document builder has been set by its
\* setter, no later step replaces the value that the built document carries
\* under that key.
C22_SetOnce ==
    [][\A key \in {"meta", "links"} :
          (IsDocumentBuilder /\ Get(heap[bRef], Str(key)) \in MetaInputs \cup LinksInputs)
              => Get(heap'[bRef], Str(key)) = Get(heap[bRef], Str(key))]_vars

\* C23: a value that build() (or a functional builder) has returned still
\* has the content it had when it was returned, whatever calls follow.
C23_BuiltIsFresh ==
    \A i \in 1..Len(bBuilt) : heap[bBuilt[i].ref] = bBuilt[i].seen

\* the values that build() of the builder of the given kinds has returned
BuiltBy(kinds) ==
    {bBuilt[i].seen : i \in {j \in 1..Len(bBuilt) : bKind \in kinds /\ bBuilt[j].ref = bRef}}

Defined(o, k) == Get(o, Str(k)) # Undefined

\* C25: every resource that the resource builder has built has a type and
\* exactly one of id and lid.
C25_IdXorLid ==
    \A r \in BuiltBy({"resource"}) :
        /\ Defined(r, "type")
        /\ Defined(r, "id") # Defined(r, "lid")

\* C26: every relationship value of a built resource has at least one of
\* links, data and meta, and the schema of a relationship rejects the empty
\* object.
C26_RelationshipNotEmpty ==
    /\ relationshipObject(EmptyObj) # <<>>
    /\ \A r \in BuiltBy({"resource"}) :
          LET rels == Entries(Get(r, Str("relationships")))
          IN \A i \in 1..Len(rels) :
                \/ Defined(rels[i][2], "links")
                \/ Defined(rels[i][2], "data")
                \/ Defined(rels[i][2], "meta")

NotNumeric(block, member) ==
    /\ HasKey(block, Str(member))
    /\ ParseInt(StringOf(Get(block, Str(member)))).nan

\* the input has a page block whose offset or limit is not a number
MalformedPage ==
    /\ IsObject(PageBlock)
    /\ NotNumeric(PageBlock, "offset") \/ NotNumeric(PageBlock, "limit")

\* C28: for a page block whose offset or limit is not numeric,
\* LimitOffsetPaginationStrategy.parse and both parsed2pagination return the
\* default page, and neither they nor the parser raise an error.
C28_MalformedPageDegrades ==
    MalformedPage =>
        /\ StrategyParse(PageBlock) = DefaultPage
        /\ parsed2pagination(PageBlock) = DefaultPage
        /\ Parsed => query # Threw

(***************************************************************************)
(* Claims about following the links                                        *)
(***************************************************************************)
\* the response has no next link and is the page that its last link targets
AtLastPage ==
    /\ ~pgLinks.next.present
    /\ pgLinks.last.present
    /\ pgOffset = pgLinks.last.offset

\* C29: with limit > 0 and total > 0 fixed, a client that starts at the first
\* link and keeps following the next link reaches a response without a next
\* link, and that response is the page that the last link targets.
C29_FollowEndsAtLast == (pgVariant # "none") ~> AtLastPage

(***************************************************************************)
(* Claims about the collection-fetch handler                               *)
(***************************************************************************)
\* C24: from the moment the parser has returned the Query of a request, the
\* Query keeps the value that the parser returned through every later step
\* of the request, the collection-fetch handler included.
C24_QueryUnchanged == hPc # "idle" => hQuery = hParsed

\* C30: the total of a collection response is the count of the store state
\* that the records of the response were fetched from, whatever writes
\* interleave with the two reads.
C30_TotalOfFetchedState ==
    hPc = "responded" =>
        /\ hResponse.data = AdapterMultiple(hFetchedFrom, hQuery)
        /\ hResponse.total = AdapterCount(hFetchedFrom, hQuery)

====
